---- MODULE Spec2Model ----
(***************************************************************************)
(* Model of voice_to_midjourney.py: the MainWindow controller, the         *)
(* AudioRecorder and ProcessingThread worker threads, and the Qt event     *)
(* queue that carries their signals to the controller's thread.            *)
(*                                                                         *)
(* Worker signals are connected to bound methods of MainWindow, which      *)
(* lives in the GUI thread, so every emit posts an event that the GUI      *)
(* thread's event loop delivers later, in posting order (evq).  A modal    *)
(* dialog (QMessageBox.critical, msg.exec, QFileDialog.getOpenFileName)    *)
(* blocks its handler in a nested event loop: queued signals are still     *)
(* delivered, keyboard and mouse input goes to the topmost dialog only     *)
(* (modal is the stack of blocked handlers, topmost last).                 *)
(***************************************************************************)
EXTENDS Naturals, Sequences, FiniteSets, TLC

(* ---------------------------- bounds ----------------------------------- *)
\* AudioRecorder objects created in one behaviour
MaxRuns == 2
\* chunks the input device delivers in one behaviour
MaxChunks == 2

(* ---------------------------- input domains ---------------------------- *)
\* a chunk is the array of frames one callback receives (indata.copy())
Chunks == {<<1>>, <<2, 3>>}
\* results of whisper_model.transcribe(...)["text"] and of the chat completion
Texts == {"a red fox in a forest"}
Prompts == {"a red fox in a forest", "a red fox in a forest, oil painting, dramatic lighting"}
\* messages of the exceptions the two services raise
TranscribeErrors == {"model unavailable"}
SynthesisErrors == {"rate limit"}
\* the files the operator can pick, and what open(file_name, 'rb').read() returns
Files == {"fox.png", "owl.jpg", "broken.png"}
FileBytes(file_name) ==
  CASE file_name = "fox.png" -> <<137, 80, 1>>
    [] file_name = "owl.jpg" -> <<255, 216, 2>>
    [] OTHER -> <<0, 0, 3>>

(* ---------------------------- texts ------------------------------------ *)
\* Texts shown or copied are tuples of their parts, so that an f-string is
\* the tuple of its literal and its argument.
StartText == <<"Press Space to Start Recording">>
StopText == <<"Press Space to Stop Recording">>
ProcessingText == <<"Processing...">>
\* f"/imagine {prompt}"
Imagine(prompt) == <<"/imagine ", prompt>>
\* f"Error: {str(e)}"
ErrorPrefix(msg) == <<"Error: ", msg>>

(* ---------------------------- pure helpers ----------------------------- *)
RECURSIVE Concatenate(_)
\* np.concatenate(audio_data): the chunks' frames, in list order
Concatenate(audio_data) ==
  IF audio_data = <<>> THEN <<>>
  ELSE Head(audio_data) \o Concatenate(Tail(audio_data))

\* Image.open(BytesIO(image_data)) identifies the format by the leading
\* magic byte (0x89 PNG, 0xFF JPEG) and raises on anything else.
Identifiable(image_data) == Len(image_data) > 0 /\ image_data[1] \in {137, 255}
ImageOpen(image_data) == [loaded |-> TRUE, data |-> image_data]
NoImage == [loaded |-> FALSE, data |-> <<>>]

VARIABLES
  is_recording,       \* MainWindow.is_recording
  recorder,           \* MainWindow.recorder: index into recorders, 0 is None
  processing_thread,  \* MainWindow.processing_thread: index into pthreads, 0 unset
  button_text,        \* record_button.text()
  button_visible,     \* record_button shown / hidden
  loading_visible,    \* loading_animation shown / hidden
  current_view,       \* stacked_widget.currentWidget(): "recording" or "art"
  image,              \* art_display.image
  clipboard,          \* QApplication.clipboard().text()
  modal,              \* handlers blocked in a modal dialog, topmost last
  recorders,          \* the AudioRecorder threads, in creation order
  pthreads,           \* the ProcessingThread threads, in creation order
  evq,                \* queued signal deliveries posted to the GUI thread
  delivered,          \* chunks the input device has delivered so far
  app,                \* the process: "running", "closed" (window closed), "aborted"
  api_result          \* what the last direct call of an AudioRecorder method raised

vars == <<is_recording, recorder, processing_thread, button_text, button_visible,
          loading_visible, current_view, image, clipboard, modal, recorders,
          pthreads, evq, delivered, app, api_result>>

view == <<button_text, button_visible, loading_visible, current_view, image, clipboard>>

(* ---------------------------- construction ----------------------------- *)
\* AudioRecorder.__init__ followed by AudioRecorder.start_recording
NewRecorder ==
  [pc |-> "started", is_recording |-> TRUE, audio_queue |-> <<>>, heard |-> <<>>,
   audio_data |-> <<>>, emitted |-> 0, handled |-> 0, starts |-> 1]

\* ProcessingThread.__init__ followed by start(); cap is the sender of the
\* signal whose delivery constructed the thread
NewProcessingThread(audio_data, sender) ==
  [pc |-> "started", audio_data |-> audio_data, cap |-> sender,
   spoken_text |-> "", image_prompt |-> "",
   transcribe_calls |-> 0, synth_calls |-> 0, raised |-> "", failed_at |-> "",
   finished_emitted |-> 0, error_emitted |-> 0,
   finished_handled |-> 0, error_handled |-> 0]

Init ==
  /\ is_recording = FALSE
  /\ recorder = 0
  /\ processing_thread = 0
  /\ button_text = StartText
  /\ button_visible = TRUE
  /\ loading_visible = FALSE
  /\ current_view = "recording"
  /\ image = NoImage
  /\ clipboard = <<>>
  /\ modal = <<>>
  /\ recorders = <<>>
  /\ pthreads = <<>>
  /\ evq = <<>>
  /\ delivered = 0
  /\ app = "running"
  /\ api_result = ""

(* ---------------------------- process ---------------------------------- *)
\* the GUI thread handles events until the window is closed (app.exec returns)
GuiRunning == app = "running"
\* worker threads run for as long as the process exists
ThreadsRunning == app # "aborted"

(* ---------------------------- MainWindow ------------------------------- *)
start_recording ==
  /\ GuiRunning
  /\ Len(recorders) < MaxRuns
  /\ button_text' = StopText
  /\ is_recording' = TRUE
  /\ recorders' = Append(recorders, NewRecorder)
  /\ recorder' = Len(recorders) + 1
  /\ UNCHANGED <<processing_thread, button_visible, loading_visible, current_view,
                 image, clipboard, modal, pthreads, evq, delivered, app, api_result>>

\* stop_recording that hands the queued audio to the pipeline itself instead
\* of waiting for the recorder's finished signal
stop_recording_eager ==
  /\ GuiRunning
  /\ button_text' = ProcessingText
  /\ button_visible' = FALSE
  /\ loading_visible' = TRUE
  /\ is_recording' = FALSE
  /\ recorder # 0
  /\ recorders' = [recorders EXCEPT ![recorder].is_recording = FALSE]
  /\ pthreads' = Append(pthreads,
        NewProcessingThread(Concatenate(recorders[recorder].audio_queue), recorder))
  /\ processing_thread' = Len(pthreads) + 1
  /\ UNCHANGED <<recorder, current_view, image, clipboard, modal, evq, delivered, app, api_result>>

stop_recording ==
  /\ GuiRunning
  /\ button_text' = ProcessingText
  /\ button_visible' = FALSE
  /\ loading_visible' = TRUE
  /\ is_recording' = FALSE
  /\ IF recorder # 0
       THEN recorders' = [recorders EXCEPT ![recorder].is_recording = FALSE]
       ELSE UNCHANGED recorders
  /\ UNCHANGED <<recorder, processing_thread, current_view, image, clipboard,
                 modal, pthreads, evq, delivered, app, api_result>>

toggle_recording ==
  IF ~is_recording THEN start_recording ELSE stop_recording

\* keyPressEvent with Key_Space; the window gets no key while a dialog is modal
KeySpace ==
  /\ modal = <<>>
  /\ toggle_recording

\* keyPressEvent with Key_Escape: self.close(); nothing else is done
KeyEscape ==
  /\ GuiRunning
  /\ modal = <<>>
  /\ app' = "closed"
  /\ UNCHANGED <<is_recording, recorder, processing_thread, view, modal, recorders,
                 pthreads, evq, delivered, api_result>>

\* record_button.clicked; the button is on the recording view
ClickRecordButton ==
  /\ modal = <<>>
  /\ button_visible
  /\ current_view = "recording"
  /\ toggle_recording

\* show_error up to the point where QMessageBox.critical blocks, called with
\* the stack of handlers that are blocked below it
show_error(error_message, below) ==
  /\ loading_visible' = FALSE
  /\ button_visible' = TRUE
  /\ button_text' = StartText
  /\ modal' = Append(below, [kind |-> "critical", text |-> error_message])

\* process_audio, the slot of AudioRecorder.finished
DeliverRecorderFinished ==
  /\ GuiRunning
  /\ evq # <<>>
  /\ Head(evq).sig = "recorder_finished"
  /\ LET m == Head(evq) IN
       /\ pthreads' = Append(pthreads, NewProcessingThread(m.data, m.src))
       /\ processing_thread' = Len(pthreads) + 1
       /\ recorders' = [recorders EXCEPT ![m.src].handled = @ + 1]
  /\ evq' = Tail(evq)
  /\ UNCHANGED <<is_recording, recorder, view, modal, delivered, app, api_result>>

\* show_error, the slot of ProcessingThread.error
DeliverError ==
  /\ GuiRunning
  /\ evq # <<>>
  /\ Head(evq).sig = "error"
  /\ LET m == Head(evq) IN
       /\ show_error(<<m.msg>>, modal)
       /\ pthreads' = [pthreads EXCEPT ![m.src].error_handled = @ + 1]
  /\ evq' = Tail(evq)
  /\ UNCHANGED <<is_recording, recorder, processing_thread, current_view, image,
                 clipboard, recorders, delivered, app, api_result>>

\* submit_to_midjourney, the slot of ProcessingThread.finished, up to msg.exec()
DeliverFinished ==
  /\ GuiRunning
  /\ evq # <<>>
  /\ Head(evq).sig = "finished"
  /\ LET m == Head(evq) IN
       /\ clipboard' = Imagine(m.prompt)
       /\ modal' = Append(modal, [kind |-> "instructions", text |-> <<>>])
       /\ pthreads' = [pthreads EXCEPT ![m.src].finished_handled = @ + 1]
  /\ evq' = Tail(evq)
  /\ UNCHANGED <<is_recording, recorder, processing_thread, button_text,
                 button_visible, loading_visible, current_view, image, recorders, delivered, app, api_result>>

Top == modal[Len(modal)]
Below == SubSeq(modal, 1, Len(modal) - 1)

\* the operator closes the QMessageBox.critical of show_error, which returns
AcknowledgeError ==
  /\ GuiRunning
  /\ modal # <<>>
  /\ Top.kind = "critical"
  /\ modal' = Below
  /\ UNCHANGED <<is_recording, recorder, processing_thread, view, recorders,
                 pthreads, evq, delivered, app, api_result>>

\* msg.exec() returns AcceptRole: QFileDialog.getOpenFileName opens
SelectImage ==
  /\ GuiRunning
  /\ modal # <<>>
  /\ Top.kind = "instructions"
  /\ modal' = Append(Below, [Top EXCEPT !.kind = "file_dialog"])
  /\ UNCHANGED <<is_recording, recorder, processing_thread, view, recorders,
                 pthreads, evq, delivered, app, api_result>>

\* msg.exec() returns anything else: show_error("Operation cancelled")
CancelInstructions ==
  /\ GuiRunning
  /\ modal # <<>>
  /\ Top.kind = "instructions"
  /\ show_error(<<"Operation cancelled">>, Below)
  /\ UNCHANGED <<is_recording, recorder, processing_thread, current_view, image,
                 clipboard, recorders, pthreads, evq, delivered, app, api_result>>

\* set_image that shows a placeholder instead of the bytes it is given
set_image_placeholder(image_data) == image' = ImageOpen(<<137, 0>>)

\* art_display.set_image(image_data)
set_image(image_data) == image' = ImageOpen(image_data)

\* getOpenFileName returns a file name: read it, show it, reset the interface;
\* Image.open raising is caught by the handler's except clause
PickFile(file_name) ==
  /\ GuiRunning
  /\ modal # <<>>
  /\ Top.kind = "file_dialog"
  /\ LET image_data == FileBytes(file_name) IN
       IF Identifiable(image_data)
         THEN /\ set_image(image_data)
              /\ current_view' = "art"
              /\ loading_visible' = FALSE
              /\ button_visible' = TRUE
              /\ button_text' = StartText
              /\ modal' = Below
         ELSE /\ show_error(ErrorPrefix("cannot identify image file"), Below)
              /\ UNCHANGED <<current_view, image>>
  /\ UNCHANGED <<is_recording, recorder, processing_thread, clipboard, recorders,
                 pthreads, evq, delivered, app, api_result>>

\* a file dialog whose cancellation returns without reporting anything
CancelFileDialog_silent ==
  /\ GuiRunning
  /\ modal # <<>>
  /\ Top.kind = "file_dialog"
  /\ modal' = Below
  /\ UNCHANGED <<is_recording, recorder, processing_thread, view, recorders,
                 pthreads, evq, delivered, app, api_result>>

\* getOpenFileName returns "": show_error("No image selected")
CancelFileDialog ==
  /\ GuiRunning
  /\ modal # <<>>
  /\ Top.kind = "file_dialog"
  /\ show_error(<<"No image selected">>, Below)
  /\ UNCHANGED <<is_recording, recorder, processing_thread, current_view, image,
                 clipboard, recorders, pthreads, evq, delivered, app, api_result>>

(* ---------------------------- AudioRecorder.run ------------------------ *)
\* entering the with block: sd.InputStream is opened and started
RecorderOpenStream(r) ==
  /\ ThreadsRunning
  /\ recorders[r].pc = "started"
  /\ recorders' = [recorders EXCEPT ![r].pc = "open"]
  /\ UNCHANGED <<is_recording, recorder, processing_thread, view, modal, pthreads, evq, delivered, app, api_result>>

\* sd.InputStream raises (no device, device busy): the exception leaves run,
\* nothing is emitted; what an exception that leaves QThread.run does to the
\* process depends on the binding: the thread ends, or the process is aborted
RecorderOpenFails(r) ==
  /\ ThreadsRunning
  /\ recorders[r].pc = "started"
  /\ recorders' = [recorders EXCEPT ![r].pc = "failed"]
  /\ \E outcome \in {"thread ends", "abort"} :
       app' = IF outcome = "abort" THEN "aborted" ELSE app
  /\ UNCHANGED <<is_recording, recorder, processing_thread, view, modal, pthreads,
                 evq, delivered, api_result>>

\* callback: the device delivers a chunk while the stream is open
RecorderCallback(r) ==
  /\ ThreadsRunning
  /\ recorders[r].pc = "open"
  /\ delivered < MaxChunks
  /\ \E indata \in Chunks :
       recorders' = [recorders EXCEPT ![r].audio_queue = Append(@, indata),
                                      ![r].heard = Append(@, indata)]
  /\ delivered' = delivered + 1
  /\ UNCHANGED <<is_recording, recorder, processing_thread, view, modal, pthreads, evq, app, api_result>>

\* while self.is_recording reads False: the with block exits, the stream closes
RecorderCloseStream(r) ==
  /\ ThreadsRunning
  /\ recorders[r].pc = "open"
  /\ ~recorders[r].is_recording
  /\ recorders' = [recorders EXCEPT ![r].pc = "closed"]
  /\ UNCHANGED <<is_recording, recorder, processing_thread, view, modal, pthreads, evq, delivered, app, api_result>>

\* a run that emits finished whether or not anything was drained
RecorderEmits_always(r, audio_data) ==
  <<[sig |-> "recorder_finished", src |-> r, data |-> Concatenate(audio_data),
     text |-> "", prompt |-> "", msg |-> ""]>>

\* what run posts after draining the queue into audio_data
RecorderEmits(r, audio_data) ==
  IF audio_data # <<>>
    THEN <<[sig |-> "recorder_finished", src |-> r, data |-> Concatenate(audio_data),
            text |-> "", prompt |-> "", msg |-> ""]>>
    ELSE <<>>

\* drain the queue, concatenate, emit finished if anything was drained
RecorderFinish(r) ==
  /\ ThreadsRunning
  /\ recorders[r].pc = "closed"
  /\ LET audio_data == recorders[r].audio_queue
         posted == RecorderEmits(r, audio_data) IN
       /\ recorders' = [recorders EXCEPT ![r].pc = "done",
                                         ![r].audio_queue = <<>>,
                                         ![r].audio_data = audio_data,
                                         ![r].emitted = @ + Len(posted)]
       /\ evq' = evq \o posted
  /\ UNCHANGED <<is_recording, recorder, processing_thread, view, modal, pthreads, delivered, app, api_result>>

(* ---------------------------- ProcessingThread.run --------------------- *)
ErrorEvent(k, msg) ==
  [sig |-> "error", src |-> k, data |-> <<>>, text |-> "", prompt |-> "", msg |-> msg]

\* finished emitted with the transcript in the place of the prompt
FinishedEvent_transcript_twice(k, spoken_text, image_prompt) ==
  [sig |-> "finished", src |-> k, data |-> <<>>, text |-> spoken_text,
   prompt |-> spoken_text, msg |-> ""]

FinishedEvent(k, spoken_text, image_prompt) ==
  [sig |-> "finished", src |-> k, data |-> <<>>, text |-> spoken_text,
   prompt |-> image_prompt, msg |-> ""]

\* a run whose transcription failure is recorded but does not end the run
Transcribe_no_short_circuit(k) ==
  /\ ThreadsRunning
  /\ pthreads[k].pc = "started"
  /\ \/ \E t \in Texts :
          pthreads' = [pthreads EXCEPT ![k].pc = "transcribed",
                                       ![k].transcribe_calls = @ + 1,
                                       ![k].spoken_text = t]
     \/ \E e \in TranscribeErrors :
          pthreads' = [pthreads EXCEPT ![k].pc = "transcribed",
                                       ![k].transcribe_calls = @ + 1,
                                       ![k].raised = e,
                                       ![k].failed_at = "transcribe"]
  /\ UNCHANGED <<is_recording, recorder, processing_thread, view, modal, recorders,
                 evq, delivered, app, api_result>>

\* whisper_model.transcribe(audio_data)["text"]; an exception goes to the
\* except clause, which emits error(str(e)) and ends run
Transcribe(k) ==
  /\ ThreadsRunning
  /\ pthreads[k].pc = "started"
  /\ \/ \E t \in Texts :
          /\ pthreads' = [pthreads EXCEPT ![k].pc = "transcribed",
                                          ![k].transcribe_calls = @ + 1,
                                          ![k].spoken_text = t]
          /\ UNCHANGED evq
     \/ \E e \in TranscribeErrors :
          /\ pthreads' = [pthreads EXCEPT ![k].pc = "done",
                                          ![k].transcribe_calls = @ + 1,
                                          ![k].raised = e,
                                          ![k].failed_at = "transcribe",
                                          ![k].error_emitted = @ + 1]
          /\ evq' = Append(evq, ErrorEvent(k, e))
  /\ UNCHANGED <<is_recording, recorder, processing_thread, view, modal, recorders, delivered, app, api_result>>

\* a run that reports an error after it has already emitted finished
Synthesize_emits_both(k) ==
  /\ ThreadsRunning
  /\ pthreads[k].pc = "transcribed"
  /\ \E p \in Prompts, e \in SynthesisErrors :
       /\ pthreads' = [pthreads EXCEPT ![k].pc = "done",
                                       ![k].synth_calls = @ + 1,
                                       ![k].image_prompt = p,
                                       ![k].finished_emitted = @ + 1,
                                       ![k].error_emitted = @ + 1]
       /\ evq' = evq \o <<FinishedEvent(k, pthreads[k].spoken_text, p), ErrorEvent(k, e)>>
  /\ UNCHANGED <<is_recording, recorder, processing_thread, view, modal, recorders,
                 delivered, app, api_result>>

\* a run that calls the completion service a second time after a failure
Synthesize_retry(k) ==
  /\ ThreadsRunning
  /\ pthreads[k].pc = "transcribed"
  /\ \/ \E p \in Prompts :
          /\ pthreads' = [pthreads EXCEPT ![k].pc = "done",
                                          ![k].synth_calls = @ + 1,
                                          ![k].image_prompt = p,
                                          ![k].finished_emitted = @ + 1]
          /\ evq' = Append(evq, FinishedEvent(k, pthreads[k].spoken_text, p))
     \/ \E e \in SynthesisErrors :
          IF pthreads[k].synth_calls = 0
            THEN /\ pthreads' = [pthreads EXCEPT ![k].synth_calls = @ + 1]
                 /\ UNCHANGED evq
            ELSE /\ pthreads' = [pthreads EXCEPT ![k].pc = "done",
                                                 ![k].synth_calls = @ + 1,
                                                 ![k].raised = e,
                                                 ![k].failed_at = "synthesize",
                                                 ![k].error_emitted = @ + 1]
                 /\ evq' = Append(evq, ErrorEvent(k, e))
  /\ UNCHANGED <<is_recording, recorder, processing_thread, view, modal, recorders, delivered, app, api_result>>

\* openai_client.chat.completions.create(...): finished(spoken_text, image_prompt)
\* on success, error(str(e)) on an exception
Synthesize(k) ==
  /\ ThreadsRunning
  /\ pthreads[k].pc = "transcribed"
  /\ \/ \E p \in Prompts :
          /\ pthreads' = [pthreads EXCEPT ![k].pc = "done",
                                          ![k].synth_calls = @ + 1,
                                          ![k].image_prompt = p,
                                          ![k].finished_emitted = @ + 1]
          /\ evq' = Append(evq, FinishedEvent(k, pthreads[k].spoken_text, p))
     \/ \E e \in SynthesisErrors :
          /\ pthreads' = [pthreads EXCEPT ![k].pc = "done",
                                          ![k].synth_calls = @ + 1,
                                          ![k].raised = e,
                                          ![k].failed_at = "synthesize",
                                          ![k].error_emitted = @ + 1]
          /\ evq' = Append(evq, ErrorEvent(k, e))
  /\ UNCHANGED <<is_recording, recorder, processing_thread, view, modal, recorders, delivered, app, api_result>>

(* ---------------------------- phases ----------------------------------- *)
\* The phase of the session, read off the controller's fields: a blocked
\* show_error is Error, a blocked submit_to_midjourney is
\* AwaitingExternalResult, otherwise the recording flag, the button text set
\* by stop_recording and the current view decide.
Phase ==
  IF modal # <<>>
    THEN (IF Top.kind = "critical" THEN "Error" ELSE "AwaitingExternalResult")
    ELSE IF is_recording THEN "Recording"
    ELSE IF button_text = ProcessingText THEN "Processing"
    ELSE IF current_view = "art" THEN "Displaying"
    ELSE "Idle"

\* an AudioRecorder thread that has been started and has not finished run
CaptureActive(r) == recorders[r].pc \in {"started", "open", "closed"}
\* an AudioRecorder thread that holds an open input stream
StreamOpen(r) == recorders[r].pc = "open"
\* a ProcessingThread that has been started and has not emitted its outcome
PipelineActive(k) == pthreads[k].pc # "done"
\* a ProcessingThread whose outcome has not been delivered to the controller
PipelineOutstanding(k) ==
  pthreads[k].finished_handled + pthreads[k].error_handled = 0

(* ---------------------------- specification ---------------------------- *)
Next ==
  \/ KeySpace
  \/ KeyEscape
  \/ ClickRecordButton
  \/ DeliverRecorderFinished
  \/ DeliverError
  \/ DeliverFinished
  \/ AcknowledgeError
  \/ SelectImage
  \/ CancelInstructions
  \/ \E file_name \in Files : PickFile(file_name)
  \/ CancelFileDialog
  \/ \E r \in 1..Len(recorders) : RecorderOpenStream(r)
  \/ \E r \in 1..Len(recorders) : RecorderOpenFails(r)
  \/ \E r \in 1..Len(recorders) : RecorderCallback(r)
  \/ \E r \in 1..Len(recorders) : RecorderCloseStream(r)
  \/ \E r \in 1..Len(recorders) : RecorderFinish(r)
  \/ \E k \in 1..Len(pthreads) : Transcribe(k)
  \/ \E k \in 1..Len(pthreads) : Synthesize(k)

Spec == Init /\ [][Next]_vars

(* ---------------------------- AudioRecorder driven directly ------------ *)
\* AudioRecorder.__init__: constructed, thread not started
AudioRecorderInit ==
  [NewRecorder EXCEPT !.pc = "idle", !.is_recording = FALSE, !.starts = 0]

\* the thread of recorder r is not running: QThread.start() starts it
ThreadStartable(r) == recorders[r].pc \in {"idle", "done", "failed"}

\* AudioRecorder.start_recording: sets the flag and calls QThread.start(),
\* which does nothing when the thread is already running; it raises nothing
ApiStartRecording(r) ==
  /\ GuiRunning
  /\ ThreadStartable(r) => recorders[r].starts < MaxRuns
  /\ recorders' = [recorders EXCEPT
        ![r].is_recording = TRUE,
        ![r].pc = IF ThreadStartable(r) THEN "started" ELSE @,
        ![r].starts = IF ThreadStartable(r) THEN @ + 1 ELSE @]
  /\ api_result' = "returned"
  /\ UNCHANGED <<is_recording, recorder, processing_thread, view, modal, pthreads,
                 evq, delivered, app>>

\* AudioRecorder.stop_recording
ApiStopRecording(r) ==
  /\ GuiRunning
  /\ recorders' = [recorders EXCEPT ![r].is_recording = FALSE]
  /\ api_result' = "returned"
  /\ UNCHANGED <<is_recording, recorder, processing_thread, view, modal, pthreads,
                 evq, delivered, app>>

InitRecorder ==
  /\ is_recording = FALSE
  /\ recorder = 0
  /\ processing_thread = 0
  /\ button_text = StartText
  /\ button_visible = TRUE
  /\ loading_visible = FALSE
  /\ current_view = "recording"
  /\ image = NoImage
  /\ clipboard = <<>>
  /\ modal = <<>>
  /\ recorders = <<AudioRecorderInit>>
  /\ pthreads = <<>>
  /\ evq = <<>>
  /\ delivered = 0
  /\ app = "running"
  /\ api_result = ""

NextRecorder ==
  \/ \E r \in 1..Len(recorders) : ApiStartRecording(r)
  \/ \E r \in 1..Len(recorders) : ApiStopRecording(r)
  \/ \E r \in 1..Len(recorders) : RecorderOpenStream(r)
  \/ \E r \in 1..Len(recorders) : RecorderOpenFails(r)
  \/ \E r \in 1..Len(recorders) : RecorderCallback(r)
  \/ \E r \in 1..Len(recorders) : RecorderCloseStream(r)
  \/ \E r \in 1..Len(recorders) : RecorderFinish(r)

\* one AudioRecorder whose methods are called in any order
SpecRecorder == InitRecorder /\ [][NextRecorder]_vars

(* ---------------------------- claims ----------------------------------- *)
Recorders == 1..Len(recorders)
PThreads == 1..Len(pthreads)

\* C1: the capture context and the pipeline context are never both active at
\* the same instant.
C1_NeverBothActive ==
  ~((\E r \in Recorders : CaptureActive(r)) /\ (\E k \in PThreads : PipelineActive(k)))

\* C2: a toggleRecording event received in Processing is a no-op: the
\* recording flag, the recorder, the processing thread and the view state are
\* unchanged and no capture is started.
C2_ToggleInProcessingIsNoOp ==
  [][(Phase = "Processing" /\ (KeySpace \/ ClickRecordButton))
       => UNCHANGED <<is_recording, recorder, processing_thread, view, recorders>>]_vars

\* C3: a capture that is stopped before any chunk was queued completes with a
\* failure that is delivered to the controller: once its run has ended, a
\* completion notification has been emitted for it, and when nothing is left
\* to deliver the session is not waiting in Processing.
C3_EmptyCaptureReported ==
  \A r \in Recorders :
    (recorders[r].pc = "done" /\ recorders[r].audio_data = <<>>)
      => /\ recorders[r].emitted = 1
         /\ (evq = <<>> /\ r = Len(recorders)) => Phase # "Processing"

EventsOf(k, sigs) == {i \in 1..Len(evq) : evq[i].src = k /\ evq[i].sig \in sigs}

C6_ExactlyOneOutcome ==
  \A k \in PThreads :
    LET t == pthreads[k] IN
      /\ t.pc # "done" => t.finished_emitted + t.error_emitted = 0
      /\ t.pc = "done" => t.finished_emitted + t.error_emitted = 1
      /\ t.finished_handled + Cardinality(EventsOf(k, {"finished"})) = t.finished_emitted
      /\ t.error_handled + Cardinality(EventsOf(k, {"error"})) = t.error_emitted

\* one run's success and another run's failure have both been delivered
C6_Witness ==
  /\ \E k \in PThreads : pthreads[k].finished_handled = 1 /\ pthreads[k].error_handled = 0
  /\ \E k \in PThreads : pthreads[k].error_handled = 1 /\ pthreads[k].finished_handled = 0

\* C7: at most one recorder holds an open input stream and at most one
\* pipeline run is outstanding.
C7_AtMostOneEach ==
  /\ Cardinality({r \in Recorders : StreamOpen(r)}) <= 1
  /\ Cardinality({k \in PThreads : PipelineOutstanding(k)}) <= 1

\* C8: a pipeline run exists only once the completion notification of its
\* capture has been handled by the controller, it works on the buffer that
\* capture produced, and no capture feeds two runs.
C8_PipelineAfterCapture ==
  \A k \in PThreads :
    LET r == pthreads[k].cap IN
      /\ r \in Recorders
      /\ recorders[r].pc = "done"
      /\ recorders[r].emitted = 1
      /\ recorders[r].handled = 1
      /\ pthreads[k].audio_data = Concatenate(recorders[r].audio_data)
      /\ \A j \in PThreads : pthreads[j].cap = r => j = k

\* the outcome of a run on a two-chunk capture has been delivered
C8_Witness ==
  \E k \in PThreads :
    /\ ~PipelineOutstanding(k)
    /\ Len(recorders[pthreads[k].cap].audio_data) = 2
    /\ pthreads[k].audio_data = <<2, 3, 1>>

C10_ResetFromDisplaying ==
  [][(Phase = "Displaying" /\ Phase' # "Displaying")
       => (Phase' = "Idle" /\ image' = NoImage /\ current_view' = "recording")]_vars

\* C11: cancelling the hand-off, in the instruction dialog or in the file
\* dialog, puts the session in Error with the cancellation message and stores
\* no image: the image and the current view are untouched.
C11_CancelledHandOff ==
  /\ [][CancelInstructions
          => /\ Phase' = "Error"
             /\ modal'[Len(modal')].text = <<"Operation cancelled">>
             /\ image' = image
             /\ current_view' = current_view]_vars
  /\ [][CancelFileDialog
          => /\ Phase' = "Error"
             /\ modal'[Len(modal')].text = <<"No image selected">>
             /\ image' = image
             /\ current_view' = current_view]_vars

\* the file dialog of a first run was cancelled: Error, nothing displayed
C11_Witness ==
  /\ Phase = "Error"
  /\ Top.text = <<"No image selected">>
  /\ image = NoImage
  /\ current_view = "recording"
  /\ \E k \in PThreads : pthreads[k].finished_handled = 1

\* C12: acknowledging an error leads to Idle.
C12_AcknowledgeLeadsToIdle ==
  [][AcknowledgeError => Phase' = "Idle"]_vars

\* C13: once stop_recording has cleared a recorder's flag, the session having
\* left Recording, that recorder's input stream is closed.
C13_StreamClosedAfterStop ==
  \A r \in Recorders :
    ~recorders[r].is_recording => ~StreamOpen(r)

\* C18: no service is invoked twice in a run, a failure at either step ends
\* the run with exactly an error, and a pipeline run starts only for a
\* capture the user has stopped and that has had no run before.
C18_NoRetries ==
  /\ [](\A k \in PThreads :
          /\ pthreads[k].transcribe_calls <= 1
          /\ pthreads[k].synth_calls <= 1
          /\ pthreads[k].failed_at # ""
               => /\ pthreads[k].pc = "done"
                  /\ pthreads[k].error_emitted = 1
                  /\ pthreads[k].finished_emitted = 0)
  /\ [][Len(pthreads') # Len(pthreads)
          => /\ Len(pthreads') = Len(pthreads) + 1
             /\ LET r == pthreads'[Len(pthreads')].cap IN
                  /\ ~recorders[r].is_recording
                  /\ recorders[r].handled = 0
                  /\ \A k \in PThreads : pthreads[k].cap # r]_vars

\* the first run failed in synthesis after one call, its error was delivered,
\* and a second run exists for a second capture
C18_Witness ==
  /\ Len(pthreads) = 2
  /\ pthreads[1].failed_at = "synthesize"
  /\ pthreads[1].synth_calls = 1
  /\ pthreads[1].error_handled = 1
  /\ pthreads[2].cap # pthreads[1].cap

\* C19: every pipeline run, and every finished notification of a recorder,
\* carries a non-empty buffer drained from at least one chunk.
C19_NoRunOnEmptyBuffer ==
  /\ \A k \in PThreads :
       /\ pthreads[k].audio_data # <<>>
       /\ Len(recorders[pthreads[k].cap].audio_data) >= 1
  /\ \A i \in 1..Len(evq) : evq[i].sig = "recorder_finished" => evq[i].data # <<>>

\* one capture ended empty and has no run, another one has a run
C19_Witness ==
  /\ Len(pthreads) = 1
  /\ evq = <<>>
  /\ \E r \in Recorders :
       /\ recorders[r].pc = "done"
       /\ recorders[r].audio_data = <<>>
       /\ recorders[r].handled = 0

\* C20: whenever MainWindow.is_recording is True, the record button reads
\* 'Press Space to Stop Recording' and the loading animation is hidden.
C20_ViewMatchesRecordingFlag ==
  is_recording => (button_text = StopText /\ ~loading_visible)

\* C14: once the window has been closed, every capture that is still active
\* has been told to end (its is_recording flag is cleared), so that its loop
\* exits and its stream closes.
C14_CloseEndsCapture ==
  app = "closed" => \A r \in Recorders : CaptureActive(r) => ~recorders[r].is_recording

\* C15: a recorder whose input stream failed to open has emitted a completion
\* notification for the controller, and the process has not been aborted.
C15_DeviceErrorSurfaced ==
  \A r \in Recorders :
    recorders[r].pc = "failed" => (recorders[r].emitted >= 1 /\ app # "aborted")

\* C16: a capture whose run has ended has emitted exactly one completion
\* notification, and what it drained is every chunk the device delivered to
\* it, in arrival order.
C16_OneNotificationAllChunks ==
  \A r \in Recorders :
    recorders[r].pc = "done"
      => (recorders[r].emitted = 1 /\ recorders[r].audio_data = recorders[r].heard)

\* C17: start_recording on a recorder whose capture is active raises
\* AlreadyRecording and leaves the recorder as it was.
C17_StartWhileActiveFails ==
  [][\A r \in Recorders :
       (ApiStartRecording(r) /\ CaptureActive(r))
         => (api_result' = "AlreadyRecording" /\ recorders' = recorders)]_vars

====
